---- MODULE Spec2Model ----
(***************************************************************************)
(* Crank-Nicolson diffusion combined with an explicit-Euler or a           *)
(* Runge-Kutta-4 reaction update (2014-01-09-Crank_Nicolson_Runge_Kutta).  *)
(*                                                                         *)
(* Numbers.  The notebook computes in floating point; its algebra is       *)
(* modelled exactly.  A finite number is the residue modulo the prime P of *)
(* the rational it stands for (every rational whose denominator is prime   *)
(* to P has one, and +, -, *, / commute with taking residues), so every    *)
(* identity of exact arithmetic is an identity of the model.  P = 3 mod 4, *)
(* so 1 + u*u is never zero, as over the reals.  One more value, NaN,      *)
(* stands for every non-finite float (inf, -inf, nan); it absorbs every    *)
(* operation the notebook applies to it.                                   *)
(***************************************************************************)
EXTENDS Integers, Sequences, FiniteSets, TLC

\* ------------------------------------------------------------- bounds
MaxJ == 3
MaxN == 3
MaxT == 2
MaxDv == 1

\* ------------------------------------------------------------- numbers
P == 7
NaN == -1

Finite(a) == a # NaN

Add(a, b) == IF a = NaN \/ b = NaN THEN NaN ELSE (a + b) % P
Sub(a, b) == IF a = NaN \/ b = NaN THEN NaN ELSE (a - b) % P
Mul(a, b) == IF a = NaN \/ b = NaN THEN NaN ELSE (a * b) % P
Neg(a) == IF a = NaN THEN NaN ELSE (0 - a) % P
\* a / b; a float division by zero yields inf or nan
Div(a, b) ==
    IF a = NaN \/ b = NaN \/ b = 0 THEN NaN
    ELSE (a * (CHOOSE x \in 1..(P - 1) : (b * x) % P = 1)) % P

\* the float literal n/d (0.1 is Lit(1, 10))
Lit(n, d) == Div(n % P, d % P)

\* ------------------------------------------------------------- arrays
\* numpy computes an array when the expression is evaluated: the value, fully
\* evaluated once
Eval(x) == IF x = x THEN x ELSE x

\* numpy.array(list): a Python list is a sequence, an array is indexed from 0
Array(list) == [j \in 0..(Len(list) - 1) |-> list[j + 1]]
Size(x) == Cardinality(DOMAIN x)
\* [e for i in range(lo, hi)]
Repeat(e, lo, hi) == [i \in 1..(IF hi > lo THEN hi - lo ELSE 0) |-> e]

RECURSIVE SumTo(_, _)
SumTo(x, n) == IF n = 0 THEN 0 ELSE Add(SumTo(x, n - 1), x[n - 1])
\* sum(x), numpy.sum(x)
Sum(x) == SumTo(x, Size(x))

multiply_sv(c, x) == Eval([j \in DOMAIN x |-> Mul(c, x[j])])
multiply_vv(x, y) == Eval([j \in DOMAIN x |-> Mul(x[j], y[j])])
add_sv(c, x) == Eval([j \in DOMAIN x |-> Add(c, x[j])])
add_vv(x, y) == Eval([j \in DOMAIN x |-> Add(x[j], y[j])])
subtract_vv(x, y) == Eval([j \in DOMAIN x |-> Sub(x[j], y[j])])
divide_vv(x, y) == Eval([j \in DOMAIN x |-> Div(x[j], y[j])])

\* numpy.diagflat(list, k): the square matrix of order len(list)+|k| with
\* list on its k-th diagonal and zero elsewhere
diagflat(list, k) ==
    LET n == Len(list) + (IF k < 0 THEN 0 - k ELSE k)
    IN  [i \in 0..(n - 1) |-> [j \in 0..(n - 1) |->
            IF j - i = k THEN list[(IF k < 0 THEN j ELSE i) + 1] ELSE 0]]
\* M1 + M2 on matrices
mat_add(M1, M2) ==
    Eval([i \in DOMAIN M1 |-> [j \in DOMAIN M1[i] |-> Add(M1[i][j], M2[i][j])]])

\* M.dot(x): a dense product, every entry of every row takes part
dot(M, x) ==
    LET n == Size(x)
        row(i) == [j \in 0..(n - 1) |-> Mul(M[i][j], x[j])]
    IN  Eval([i \in DOMAIN M |-> Sum(row(i))])

\* ------------------------------------------------------------- linear solve
Minor(M, n, c) ==
    [i \in 0..(n - 2) |-> [j \in 0..(n - 2) |-> M[i + 1][IF j < c THEN j ELSE j + 1]]]
RECURSIVE Det(_, _)
RECURSIVE DetRow(_, _, _)
DetRow(M, n, c) ==
    IF c = n THEN 0
    ELSE LET t == Mul(M[0][c], Det(Minor(M, n, c), n - 1))
         IN  Add(IF c % 2 = 0 THEN t ELSE Neg(t), DetRow(M, n, c + 1))
Det(M, n) == IF n = 1 THEN M[0][0] ELSE DetRow(M, n, 0)

\* numpy.linalg.solve raises LinAlgError on a singular matrix
Singular(M) == Det(M, Size(M)) = 0
\* numpy.linalg.solve(M, b), M not singular: the x with M x = b (Cramer's rule)
solve(M, b) ==
    LET n == Size(M)
        d == Det(M, n)
        withCol(c) == [i \in 0..(n - 1) |-> [j \in 0..(n - 1) |->
                          IF j = c THEN b[i] ELSE M[i][j]]]
    IN  Eval([c \in 0..(n - 1) |-> Div(Det(withCol(c), n), d)])

\* ------------------------------------------------------------- state
VARIABLES
    J,              \* number of grid points
    N,              \* number of time points
    T,              \* simulated time
    D_v,            \* diffusion coefficient of V
    k0,             \* reaction rate constant
    no_high,        \* number of grid points that start at the high level of U
    garbage,        \* what the cells of a numpy.empty array hold before they are written
    pc,             \* the statement of the time-loop cell that runs next
    ti,             \* the loop variable
    U_record_ee, V_record_ee, U_record_rk, V_record_rk,
    written,        \* history: per record, the row indices written so far, in order
    contrib         \* history: per record and row, what its statement added to B.dot(previous row)

vars == <<J, N, T, D_v, k0, no_high, garbage, pc, ti,
          U_record_ee, V_record_ee, U_record_rk, V_record_rk, written, contrib>>

Records == {"U_ee", "V_ee", "U_rk", "V_rk"}

\* ------------------------------------------------------------- parameters
L == Lit(1, 1)
dx == Div(L, Lit(J - 1, 1))
dt == Div(Lit(T, 1), Lit(N - 1, 1))
D_u == Mul(Lit(1, 100), D_v)
sigma_u == Div(Mul(D_u, dt), Mul(Mul(2, dx), dx))
sigma_v == Div(Mul(D_v, dt), Mul(Mul(2, dx), dx))
total_protein == Lit(226, 100)

\* ------------------------------------------------------------- initial condition
U == Array(Repeat(Lit(1, 10), no_high, J) \o Repeat(2, 0, no_high))
V == Array([i \in 1..J |->
        Div(Sub(total_protein, Mul(dx, Sum(U))), Mul(Lit(J, 1), dx))])

\* ------------------------------------------------------------- operators
A_u ==
    mat_add(mat_add(
        diagflat(Repeat(Neg(sigma_u), 0, J - 1), -1),
        diagflat(<<Add(1, sigma_u)>> \o Repeat(Add(1, Mul(2, sigma_u)), 0, J - 2)
                 \o <<Add(1, sigma_u)>>, 0)),
        diagflat(Repeat(Neg(sigma_u), 0, J - 1), 1))

\* B_u with the sign of its super-diagonal flipped
B_u_sign ==
    mat_add(mat_add(
        diagflat(Repeat(sigma_u, 0, J - 1), -1),
        diagflat(<<Sub(1, sigma_u)>> \o Repeat(Sub(1, Mul(2, sigma_u)), 0, J - 2)
                 \o <<Sub(1, sigma_u)>>, 0)),
        diagflat(Repeat(Neg(sigma_u), 0, J - 1), 1))
B_u ==
    mat_add(mat_add(
        diagflat(Repeat(sigma_u, 0, J - 1), -1),
        diagflat(<<Sub(1, sigma_u)>> \o Repeat(Sub(1, Mul(2, sigma_u)), 0, J - 2)
                 \o <<Sub(1, sigma_u)>>, 0)),
        diagflat(Repeat(sigma_u, 0, J - 1), 1))

\* A_v with the interior coefficient 1+2*sigma on every row
A_v_interior ==
    mat_add(mat_add(
        diagflat(Repeat(Neg(sigma_v), 0, J - 1), -1),
        diagflat(Repeat(Add(1, Mul(2, sigma_v)), 0, J), 0)),
        diagflat(Repeat(Neg(sigma_v), 0, J - 1), 1))
A_v ==
    mat_add(mat_add(
        diagflat(Repeat(Neg(sigma_v), 0, J - 1), -1),
        diagflat(<<Add(1, sigma_v)>> \o Repeat(Add(1, Mul(2, sigma_v)), 0, J - 2)
                 \o <<Add(1, sigma_v)>>, 0)),
        diagflat(Repeat(Neg(sigma_v), 0, J - 1), 1))

B_v ==
    mat_add(mat_add(
        diagflat(Repeat(sigma_v, 0, J - 1), -1),
        diagflat(<<Sub(1, sigma_v)>> \o Repeat(Sub(1, Mul(2, sigma_v)), 0, J - 2)
                 \o <<Sub(1, sigma_v)>>, 0)),
        diagflat(Repeat(sigma_v, 0, J - 1), 1))

\* ------------------------------------------------------------- reaction term
f_vec_ee(Uv, Vv) ==
    multiply_sv(dt, subtract_vv(multiply_vv(Vv,
        add_sv(k0, divide_vv(multiply_vv(Uv, Uv), add_sv(1, multiply_vv(Uv, Uv))))), Uv))

\* the lambda f_vec inside f_vec_rk
f_vec(Uv, Vv) ==
    subtract_vv(multiply_vv(Vv,
        add_sv(k0, divide_vv(multiply_vv(Uv, Uv), add_sv(1, multiply_vv(Uv, Uv))))), Uv)

\* the body of f_vec_rk: the stages k1..k4, the (U, V) each of k2, k3, k4 is
\* evaluated at, and the vector returned
\* f_vec_rk with the V argument of k2 incremented instead of decremented
rk_same_sign(Uv, Vv) ==
    LET k1 == f_vec(Uv, Vv)
        a2 == <<add_vv(Uv, multiply_sv(Div(dt, 2), k1)),
                add_vv(Vv, multiply_sv(Div(dt, 2), k1))>>
        k2 == f_vec(a2[1], a2[2])
        a3 == <<add_vv(Uv, multiply_sv(Div(dt, 2), k2)),
                subtract_vv(Vv, multiply_sv(Div(dt, 2), k2))>>
        k3 == f_vec(a3[1], a3[2])
        a4 == <<add_vv(Uv, multiply_sv(dt, k3)),
                subtract_vv(Vv, multiply_sv(dt, k3))>>
        k4 == f_vec(a4[1], a4[2])
    IN  [k1 |-> k1, k2 |-> k2, k3 |-> k3, k4 |-> k4, a2 |-> a2, a3 |-> a3, a4 |-> a4,
         ret |-> multiply_sv(Div(dt, 6),
                    add_vv(add_vv(add_vv(k1, multiply_sv(2, k2)), multiply_sv(2, k3)), k4))]
rk(Uv, Vv) ==
    LET k1 == f_vec(Uv, Vv)
        a2 == <<add_vv(Uv, multiply_sv(Div(dt, 2), k1)),
                subtract_vv(Vv, multiply_sv(Div(dt, 2), k1))>>
        k2 == f_vec(a2[1], a2[2])
        a3 == <<add_vv(Uv, multiply_sv(Div(dt, 2), k2)),
                subtract_vv(Vv, multiply_sv(Div(dt, 2), k2))>>
        k3 == f_vec(a3[1], a3[2])
        a4 == <<add_vv(Uv, multiply_sv(dt, k3)),
                subtract_vv(Vv, multiply_sv(dt, k3))>>
        k4 == f_vec(a4[1], a4[2])
    IN  [k1 |-> k1, k2 |-> k2, k3 |-> k3, k4 |-> k4, a2 |-> a2, a3 |-> a3, a4 |-> a4,
         ret |-> multiply_sv(Div(dt, 6),
                    add_vv(add_vv(add_vv(k1, multiply_sv(2, k2)), multiply_sv(2, k3)), k4))]

f_vec_rk(Uv, Vv) == rk(Uv, Vv).ret

\* ------------------------------------------------------------- time loop
\* numpy.empty(shape=(N,J)): N rows of J cells, their content whatever memory held
empty == [n \in 0..(N - 1) |-> [j \in 0..(J - 1) |-> garbage]]

\* the right-hand sides handed to numpy.linalg.solve in iteration t, as the
\* statements compute them from the records
\* Rhs_U_ee reading V from the Runge-Kutta record
Rhs_U_ee_other_record(Urec, Vrec, t) ==
    add_vv(dot(B_u, Urec[t - 1]), f_vec_ee(Urec[t - 1], V_record_rk[t - 1]))
Rhs_U_ee(Urec, Vrec, t) ==
    add_vv(dot(B_u, Urec[t - 1]), f_vec_ee(Urec[t - 1], Vrec[t - 1]))
\* Rhs_V_ee evaluating the reaction term on the row of U just written
Rhs_V_ee_updated(Urec, Vrec, t) ==
    subtract_vv(dot(B_v, Vrec[t - 1]), f_vec_ee(Urec[t], Vrec[t - 1]))
Rhs_V_ee(Urec, Vrec, t) ==
    subtract_vv(dot(B_v, Vrec[t - 1]), f_vec_ee(Urec[t - 1], Vrec[t - 1]))
\* Rhs_U_rk applying B_v to U
Rhs_U_rk_wrong_B(Urec, Vrec, t) ==
    add_vv(dot(B_v, Urec[t - 1]), f_vec_rk(Urec[t - 1], Vrec[t - 1]))
Rhs_U_rk(Urec, Vrec, t) ==
    add_vv(dot(B_u, Urec[t - 1]), f_vec_rk(Urec[t - 1], Vrec[t - 1]))
\* Rhs_V_rk evaluating the reaction term on the row of U just written
Rhs_V_rk_updated(Urec, Vrec, t) ==
    subtract_vv(dot(B_v, Vrec[t - 1]), f_vec_rk(Urec[t], Vrec[t - 1]))
Rhs_V_rk(Urec, Vrec, t) ==
    subtract_vv(dot(B_v, Vrec[t - 1]), f_vec_rk(Urec[t - 1], Vrec[t - 1]))

\* history of a row assignment: the row index, and what was added to B.dot(prev)
Log(rec, t, rhs, B, prev) ==
    /\ written' = [written EXCEPT ![rec] = Append(@, t)]
    /\ contrib' = [contrib EXCEPT ![rec][t] = subtract_vv(rhs, dot(B, prev))]

params == <<J, N, T, D_v, k0, no_high, garbage>>

\* U_record_ee[0][:] = U[:] ... V_record_rk[0][:] = V[:]
CopyInitial ==
    /\ pc = "copy"
    /\ U_record_ee' = [U_record_ee EXCEPT ![0] = U]
    /\ V_record_ee' = [V_record_ee EXCEPT ![0] = V]
    /\ U_record_rk' = [U_record_rk EXCEPT ![0] = U]
    /\ V_record_rk' = [V_record_rk EXCEPT ![0] = V]
    /\ written' = [r \in Records |-> Append(written[r], 0)]
    /\ pc' = "for"
    /\ UNCHANGED <<params, ti, contrib>>

\* a loop that advances ti by two
ForNext_skip ==
    /\ pc = "for"
    /\ ti + 2 < N
    /\ ti' = ti + 2
    /\ pc' = "U_ee"
    /\ UNCHANGED <<params, U_record_ee, V_record_ee, U_record_rk, V_record_rk,
                   written, contrib>>

\* for ti in range(1,N): the next value of ti
ForNext ==
    /\ pc = "for"
    /\ ti + 1 < N
    /\ ti' = ti + 1
    /\ pc' = "U_ee"
    /\ UNCHANGED <<params, U_record_ee, V_record_ee, U_record_rk, V_record_rk,
                   written, contrib>>

\* for ti in range(1,N): the range is exhausted
ForExit ==
    /\ pc = "for"
    /\ ti + 1 >= N
    /\ pc' = "done"
    /\ UNCHANGED <<params, ti, U_record_ee, V_record_ee, U_record_rk, V_record_rk,
                   written, contrib>>

Step_U_ee ==
    /\ pc = "U_ee"
    /\ ~Singular(A_u)
    /\ LET rhs == Rhs_U_ee(U_record_ee, V_record_ee, ti)
       IN  /\ U_record_ee' = [U_record_ee EXCEPT ![ti] = solve(A_u, rhs)]
           /\ Log("U_ee", ti, rhs, B_u, U_record_ee[ti - 1])
    /\ pc' = "V_ee"
    /\ UNCHANGED <<params, ti, V_record_ee, U_record_rk, V_record_rk>>

Step_V_ee ==
    /\ pc = "V_ee"
    /\ ~Singular(A_v)
    /\ LET rhs == Rhs_V_ee(U_record_ee, V_record_ee, ti)
       IN  /\ V_record_ee' = [V_record_ee EXCEPT ![ti] = solve(A_v, rhs)]
           /\ Log("V_ee", ti, rhs, B_v, V_record_ee[ti - 1])
    /\ pc' = "U_rk"
    /\ UNCHANGED <<params, ti, U_record_ee, U_record_rk, V_record_rk>>

Step_U_rk ==
    /\ pc = "U_rk"
    /\ ~Singular(A_u)
    /\ LET rhs == Rhs_U_rk(U_record_rk, V_record_rk, ti)
       IN  /\ U_record_rk' = [U_record_rk EXCEPT ![ti] = solve(A_u, rhs)]
           /\ Log("U_rk", ti, rhs, B_u, U_record_rk[ti - 1])
    /\ pc' = "V_rk"
    /\ UNCHANGED <<params, ti, U_record_ee, V_record_ee, V_record_rk>>

Step_V_rk ==
    /\ pc = "V_rk"
    /\ ~Singular(A_v)
    /\ LET rhs == Rhs_V_rk(U_record_rk, V_record_rk, ti)
       IN  /\ V_record_rk' = [V_record_rk EXCEPT ![ti] = solve(A_v, rhs)]
           /\ Log("V_rk", ti, rhs, B_v, V_record_rk[ti - 1])
    /\ pc' = "for"
    /\ UNCHANGED <<params, ti, U_record_ee, V_record_ee, U_record_rk>>

\* numpy.linalg.solve raises LinAlgError: the exception ends the cell, the
\* records keep what they hold
SolveRaises ==
    /\ \/ pc \in {"U_ee", "U_rk"} /\ Singular(A_u)
       \/ pc \in {"V_ee", "V_rk"} /\ Singular(A_v)
    /\ pc' = "error"
    /\ UNCHANGED <<params, ti, U_record_ee, V_record_ee, U_record_rk, V_record_rk,
                   written, contrib>>

\* ------------------------------------------------------------- specification
K0Vals == {Lit(67, 1000), 0}
DvVals == {Lit(d, 10) : d \in 1..MaxDv}
GarbageVals == {0, 1}

\* the state after the cells before the time loop ran and the four records
\* were allocated.  The notebook fixes J = 200, N = 1000, T = 500, D_v = 0.1,
\* k0 = 0.067, no_high = 10; the grid sizes are drawn from 2..MaxJ and 2..MaxN,
\* T from 500 upwards, D_v from 0.1 upwards in tenths, no_high from 0..J.
InitWith(k0s) ==
    /\ J \in 2..MaxJ
    /\ N \in 2..MaxN
    /\ T \in 500..(499 + MaxT)
    /\ D_v \in DvVals
    /\ k0 \in k0s
    /\ no_high \in 0..J
    /\ garbage \in GarbageVals
    /\ pc = "copy"
    /\ ti = 0
    /\ U_record_ee = empty
    /\ V_record_ee = empty
    /\ U_record_rk = empty
    /\ V_record_rk = empty
    /\ written = [r \in Records |-> <<>>]
    /\ contrib = [r \in Records |-> [n \in 1..(N - 1) |-> [j \in 0..(J - 1) |-> 0]]]

Init == InitWith(K0Vals)

Next ==
    \/ CopyInitial
    \/ ForNext
    \/ ForExit
    \/ Step_U_ee
    \/ Step_V_ee
    \/ Step_U_rk
    \/ Step_V_rk
    \/ SolveRaises

Spec == Init /\ [][Next]_vars

\* the same program with a rate constant that may be non-finite: the exact
\* arithmetic above never overflows, so a non-finite reaction term, which
\* floating point produces by overflow, enters through k0
InitNF == InitWith(K0Vals \cup {NaN})
SpecNF == InitNF /\ [][Next]_vars

\* ------------------------------------------------------------- properties
Has(r, n) == \E i \in 1..Len(written[r]) : written[r][i] = n
Rows == 0..(N - 1)
Cols == 0..(J - 1)
negate(x) == Eval([j \in DOMAIN x |-> Neg(x[j])])
IsZero(x) == \A j \in DOMAIN x : x[j] = 0
\* the conserved quantity as the report cells compute it
Mass(Uv, Vv) == Sum(add_vv(multiply_sv(dx, Uv), multiply_sv(dx, Vv)))

\* C1: when the loop has finished each of the four records holds N rows, row 0
\* is the initial condition, and the rows were written one per iteration in
\* increasing order, none twice, none skipped; the loop ends after row N-1.
C1_RecordInTimeOrder ==
    /\ \A r \in Records : \A i \in 1..Len(written[r]) : written[r][i] = i - 1
    /\ pc = "done" =>
        /\ \A r \in Records : Len(written[r]) = N
        /\ ti = N - 1
        /\ DOMAIN U_record_ee = Rows /\ DOMAIN V_record_ee = Rows
        /\ DOMAIN U_record_rk = Rows /\ DOMAIN V_record_rk = Rows
        /\ U_record_ee[0] = U /\ V_record_ee[0] = V
        /\ U_record_rk[0] = U /\ V_record_rk[0] = V
C1_Witness == pc = "done" /\ N >= 3 /\ U_record_ee[N - 1] # U

\* C2: at every recorded time index the total mass sum((U_j + V_j) * dx) of
\* each variant equals its value at index 0.
C2_MassConserved ==
    \A n \in Rows :
        /\ (Has("U_ee", n) /\ Has("V_ee", n)) =>
               Mass(U_record_ee[n], V_record_ee[n]) = Mass(U_record_ee[0], V_record_ee[0])
        /\ (Has("U_rk", n) /\ Has("V_rk", n)) =>
               Mass(U_record_rk[n], V_record_rk[n]) = Mass(U_record_rk[0], V_record_rk[0])
C2_Witness ==
    /\ pc = "done" /\ N >= 3 /\ J >= 3
    /\ Sum(U_record_ee[N - 1]) # Sum(U_record_ee[0])
    /\ Sum(U_record_rk[N - 1]) # Sum(U_record_rk[0])
    /\ U_record_rk[N - 1] # U_record_ee[N - 1]

\* C3: at every step and grid point, for both variants, what is added to the
\* right-hand side of U's system is the negation of what is added to V's, and
\* both are the reaction term of the previous row.
C3_AntiSymmetry ==
    \A n \in 1..(N - 1) :
        /\ (Has("U_ee", n) /\ Has("V_ee", n)) =>
               /\ contrib["U_ee"][n] = negate(contrib["V_ee"][n])
               /\ contrib["U_ee"][n] = f_vec_ee(U_record_ee[n - 1], V_record_ee[n - 1])
        /\ (Has("U_rk", n) /\ Has("V_rk", n)) =>
               /\ contrib["U_rk"][n] = negate(contrib["V_rk"][n])
               /\ contrib["U_rk"][n] = f_vec_rk(U_record_rk[n - 1], V_record_rk[n - 1])
C3_Witness ==
    /\ pc = "for" /\ ti >= 2
    /\ ~IsZero(contrib["V_ee"][ti]) /\ ~IsZero(contrib["V_rk"][ti])

\* M is tridiagonal with the given boundary, interior and off-diagonal entries
Tridiagonal(M, edge, inner, off) ==
    /\ DOMAIN M = Cols
    /\ \A i \in Cols :
        /\ DOMAIN M[i] = Cols
        /\ \A j \in Cols :
            M[i][j] = IF i = j THEN (IF i = 0 \/ i = J - 1 THEN edge ELSE inner)
                      ELSE IF i - j = 1 \/ j - i = 1 THEN off
                      ELSE 0
\* C4: A and B of each species are J x J, zero outside the three central
\* bands, with diagonal 1+sigma (A) and 1-sigma (B) on the first and last rows,
\* 1+2*sigma and 1-2*sigma on the interior rows, and off-diagonals -sigma (A)
\* and +sigma (B).
C4_OperatorStructure ==
    /\ Tridiagonal(A_u, Add(1, sigma_u), Add(1, Mul(2, sigma_u)), Neg(sigma_u))
    /\ Tridiagonal(B_u, Sub(1, sigma_u), Sub(1, Mul(2, sigma_u)), sigma_u)
    /\ Tridiagonal(A_v, Add(1, sigma_v), Add(1, Mul(2, sigma_v)), Neg(sigma_v))
    /\ Tridiagonal(B_v, Sub(1, sigma_v), Sub(1, Mul(2, sigma_v)), sigma_v)
C4_Witness == J >= 3 /\ sigma_u # 0 /\ sigma_v # 0 /\ sigma_u # sigma_v /\ pc = "U_ee"

\* the reaction rate at one grid point and the classical Runge-Kutta step of
\* u' = rate, v' = -rate
rate(u, v) == Sub(Mul(v, Add(k0, Div(Mul(u, u), Add(1, Mul(u, u))))), u)
RK4(u, v) ==
    LET h == Div(dt, 2)
        k1 == rate(u, v)
        k2 == rate(Add(u, Mul(h, k1)), Sub(v, Mul(h, k1)))
        k3 == rate(Add(u, Mul(h, k2)), Sub(v, Mul(h, k2)))
        k4 == rate(Add(u, Mul(dt, k3)), Sub(v, Mul(dt, k3)))
    IN  Mul(Div(dt, 6), Add(Add(Add(k1, Mul(2, k2)), Mul(2, k3)), k4))
\* C8: f_vec_rk returns dt/6 * (k1 + 2*k2 + 2*k3 + k4), the stages being the
\* rate (no dt factor) at (U,V), (U + dt/2*k1, V - dt/2*k1),
\* (U + dt/2*k2, V - dt/2*k2), (U + dt*k3, V - dt*k3); the arguments of every
\* stage have the same U+V as the input, at every grid point.
C8_RungeKuttaStages ==
    \A n \in Rows : (Has("U_rk", n) /\ Has("V_rk", n)) =>
        LET Uv == U_record_rk[n]
            Vv == V_record_rk[n]
            s == rk(Uv, Vv)
        IN  /\ \A j \in Cols : f_vec_rk(Uv, Vv)[j] = RK4(Uv[j], Vv[j])
            /\ \A a \in {s.a2, s.a3, s.a4} : add_vv(a[1], a[2]) = add_vv(Uv, Vv)
C8_Witness ==
    /\ pc = "V_rk" /\ ti >= 2
    /\ LET Uv == U_record_rk[ti - 1]
           Vv == V_record_rk[ti - 1]
           s == rk(Uv, Vv)
       IN  /\ ~IsZero(s.ret)
           /\ s.k1 # s.k2 /\ s.k3 # s.k4
           /\ s.a2[1] # Uv
           /\ contrib["U_rk"][ti] = s.ret

\* a row with a non-finite entry; row n of record r
NonFinite(x) == \E j \in DOMAIN x : ~Finite(x[j])
Row(r, n) ==
    CASE r = "U_ee" -> U_record_ee[n]
      [] r = "V_ee" -> V_record_ee[n]
      [] r = "U_rk" -> U_record_rk[n]
      [] r = "V_rk" -> V_record_rk[n]
\* C5: once a row holding a non-finite value has been produced at some step,
\* the run is aborted there: no row of a later step is computed.
C5_AbortOnNonFinite ==
    \A r \in Records : \A n \in Rows :
        (Has(r, n) /\ NonFinite(Row(r, n))) =>
            \A q \in Records : \A m \in Rows : m > n => ~Has(q, m)

\* C6: the initial U is 2.0 on the first no_high grid points (indices
\* 0..no_high-1) and 0.1 on every other grid point.
C6_HighOnFirstPoints ==
    pc # "copy" =>
        \A j \in Cols : U_record_ee[0][j] = IF j < no_high THEN 2 ELSE Lit(1, 10)

\* the right-hand side Rhs of iteration ti reads no row but ti-1
OtherRows == {[j \in Cols |-> c] : c \in {2, 3}}
OnlyPrevious(Rhs(_, _, _), Urec, Vrec) ==
    LET now == Rhs(Urec, Vrec, ti)
    IN  \A m \in Rows \ {ti - 1} : \A g \in OtherRows :
            Rhs([Urec EXCEPT ![m] = g], [Vrec EXCEPT ![m] = g], ti) = now
\* C7: every recorded row n >= 1 satisfies A_U * U[n] = B_U * U[n-1] + r and
\* A_V * V[n] = B_V * V[n-1] - r with r the variant's reaction term of row n-1;
\* and what a statement of iteration ti hands to the solver does not change
\* when any row other than ti-1 of its variant's records is replaced.
C7_StepRecurrence ==
    /\ \A n \in 1..(N - 1) :
        /\ Has("U_ee", n) =>
               dot(A_u, U_record_ee[n]) =
                   add_vv(dot(B_u, U_record_ee[n - 1]),
                          f_vec_ee(U_record_ee[n - 1], V_record_ee[n - 1]))
        /\ Has("V_ee", n) =>
               dot(A_v, V_record_ee[n]) =
                   subtract_vv(dot(B_v, V_record_ee[n - 1]),
                               f_vec_ee(U_record_ee[n - 1], V_record_ee[n - 1]))
        /\ Has("U_rk", n) =>
               dot(A_u, U_record_rk[n]) =
                   add_vv(dot(B_u, U_record_rk[n - 1]),
                          f_vec_rk(U_record_rk[n - 1], V_record_rk[n - 1]))
        /\ Has("V_rk", n) =>
               dot(A_v, V_record_rk[n]) =
                   subtract_vv(dot(B_v, V_record_rk[n - 1]),
                               f_vec_rk(U_record_rk[n - 1], V_record_rk[n - 1]))
    /\ pc = "U_ee" => OnlyPrevious(Rhs_U_ee, U_record_ee, V_record_ee)
    /\ pc = "V_ee" => OnlyPrevious(Rhs_V_ee, U_record_ee, V_record_ee)
    /\ pc = "U_rk" => OnlyPrevious(Rhs_U_rk, U_record_rk, V_record_rk)
    /\ pc = "V_rk" => OnlyPrevious(Rhs_V_rk, U_record_rk, V_record_rk)
C7_Witness ==
    /\ pc = "done" /\ N >= 3 /\ J >= 3
    /\ U_record_rk[2] # U_record_rk[1] /\ V_record_rk[2] # V_record_rk[1]
    /\ U_record_ee[2] # U_record_ee[1] /\ V_record_ee[2] # V_record_ee[1]
    /\ ~IsZero(contrib["U_rk"][2]) /\ ~IsZero(contrib["U_ee"][2])

\* rows n as the V statement followed by the U statement would compute them,
\* starting from records whose rows n are unwritten
OtherOrder(RhsU(_, _, _), RhsV(_, _, _), Urec, Vrec, n) ==
    LET Upre == [Urec EXCEPT ![n] = empty[n]]
        Vpre == [Vrec EXCEPT ![n] = empty[n]]
        Vfirst == solve(A_v, RhsV(Upre, Vpre, n))
        Usecond == solve(A_u, RhsU(Upre, [Vpre EXCEPT ![n] = Vfirst], n))
    IN  <<Usecond, Vfirst>>
C9_Commute ==
    /\ \A n \in 1..(N - 1) :
        /\ (Has("U_ee", n) /\ Has("V_ee", n)) =>
               OtherOrder(Rhs_U_ee, Rhs_V_ee, U_record_ee, V_record_ee, n)
                   = <<U_record_ee[n], V_record_ee[n]>>
        /\ (Has("U_rk", n) /\ Has("V_rk", n)) =>
               OtherOrder(Rhs_U_rk, Rhs_V_rk, U_record_rk, V_record_rk, n)
                   = <<U_record_rk[n], V_record_rk[n]>>
    /\ pc \in {"U_ee", "V_ee"} => Has("U_ee", ti - 1) /\ Has("V_ee", ti - 1)
    /\ pc \in {"U_rk", "V_rk"} => Has("U_rk", ti - 1) /\ Has("V_rk", ti - 1)
C9_OwnRowOnly ==
    /\ \A n \in Rows \ {ti} : U_record_ee'[n] = U_record_ee[n] /\ V_record_ee'[n] = V_record_ee[n]
                           /\ U_record_rk'[n] = U_record_rk[n] /\ V_record_rk'[n] = V_record_rk[n]
    /\ pc # "U_ee" => U_record_ee' = U_record_ee
    /\ pc # "V_ee" => V_record_ee' = V_record_ee
    /\ pc # "U_rk" => U_record_rk' = U_record_rk
    /\ pc # "V_rk" => V_record_rk' = V_record_rk
\* C9: within one step the U solve and the V solve of a variant commute: had
\* the V statement run first, on records whose row n was still unwritten, and
\* the U statement after it, rows n would be the ones the program recorded;
\* a statement of step ti runs only when both rows ti-1 of its variant are
\* written, and it writes only the row ti of its own record.
C9_IndependentSolves == []C9_Commute /\ [][pc # "copy" => C9_OwnRowOnly]_vars
C9_Witness ==
    /\ pc = "for" /\ ti >= 2 /\ J >= 3
    /\ U_record_ee[ti] # U_record_ee[ti - 1] /\ V_record_ee[ti] # V_record_ee[ti - 1]
    /\ U_record_rk[ti] # U_record_rk[ti - 1] /\ V_record_rk[ti] # V_record_rk[ti - 1]
    /\ U_record_rk[ti] # U_record_ee[ti]

\* the rows 0..n of a run that advances one variant only
RECURSIVE AloneEE(_)
AloneEE(n) ==
    IF n = 0 THEN <<<<U, V>>>>
    ELSE LET run == AloneEE(n - 1)
             Up == run[n][1]
             Vp == run[n][2]
         IN  Append(run,
                 <<solve(A_u, add_vv(dot(B_u, Up), f_vec_ee(Up, Vp))),
                   solve(A_v, subtract_vv(dot(B_v, Vp), f_vec_ee(Up, Vp)))>>)
RECURSIVE AloneRK(_)
AloneRK(n) ==
    IF n = 0 THEN <<<<U, V>>>>
    ELSE LET run == AloneRK(n - 1)
             Up == run[n][1]
             Vp == run[n][2]
         IN  Append(run,
                 <<solve(A_u, add_vv(dot(B_u, Up), f_vec_rk(Up, Vp))),
                   solve(A_v, subtract_vv(dot(B_v, Vp), f_vec_rk(Up, Vp)))>>)
\* C10: each variant's record is what a run of that variant alone, from the
\* same initial condition and operators, produces.
C10_VariantsDoNotInterfere ==
    LET runEE == AloneEE(Len(written["U_ee"]) - 1)
        runRK == AloneRK(Len(written["U_rk"]) - 1)
    IN  \A n \in Rows :
            /\ Has("U_ee", n) => U_record_ee[n] = runEE[n + 1][1]
            /\ Has("V_ee", n) => V_record_ee[n] = runEE[n + 1][2]
            /\ Has("U_rk", n) => U_record_rk[n] = runRK[n + 1][1]
            /\ Has("V_rk", n) => V_record_rk[n] = runRK[n + 1][2]
C10_Witness ==
    /\ pc = "done" /\ N >= 3
    /\ U_record_ee[1] # U_record_rk[1] /\ V_record_ee[1] # V_record_rk[1]
    /\ U_record_ee[N - 1] # U_record_rk[N - 1] /\ V_record_ee[N - 1] # V_record_rk[N - 1]
====
